---- MODULE Spec2Model ----
(***************************************************************************)
(* scplot/plot.py: the six plot functions (violin, heatmap, scatter,       *)
(* dotplot, scatter_matrix, embedding) as atomic operations on one         *)
(* annotated matrix.  Each action is one whole call: raw-view resolution,  *)
(* option merging, field lookup, derived columns and the hand-over to the  *)
(* renderer.  What the renderer receives (table and keyword arguments) is  *)
(* recorded in `call`; `adata` is the annotated matrix the caller owns.    *)
(*                                                                         *)
(* Numbers: matrix entries and numeric observation fields are naturals;    *)
(* category codes are naturals with dtype "category"; means, fractions and *)
(* pixel sizes are exact rationals <<numerator, denominator>>.             *)
(***************************************************************************)
EXTENDS Integers, Sequences, FiniteSets, TLC

VARIABLES adata, call

vars == <<adata, call>>

\* ------------------------------------------------------------------ bounds
NObs == 3
MaxVal == 1
MaxKeys == 2

\* ------------------------------------------------------------- vocabulary
None == "None"
Obs == 1..NObs

\* "A": variable of both matrices and a numeric observation field (ambiguous)
\* "B": variable of both matrices only
\* "R": variable of the raw alternate only, and a numeric observation field
\* "grp": categorical observation field only
Names == {"A", "B", "R", "grp"}
Basis == "umap"

RawNotFound == "ValueError: Raw data not found"
NotSupported == "ValueError: Coloring scatter matrix by gene expression not yet supported"
KeyError == "KeyError"
TypeError == "TypeError: got multiple values for keyword argument"
LibraryError == "TypeError: size field is not numeric"
NoColumns == "ValueError: no columns to aggregate"
Ok == "ok"

\* ---------------------------------------------------------------- helpers
Put(f, k, v) == [x \in DOMAIN f \cup {k} |-> IF x = k THEN v ELSE f[x]]

Update(f, g) == [x \in DOMAIN f \cup DOMAIN g |-> IF x \in DOMAIN g THEN g[x] ELSE f[x]]

Restrict(f, S) == [x \in DOMAIN f \cap S |-> f[x]]

Empty == [x \in {} |-> None]

Range(s) == {s[i] : i \in DOMAIN s}

RECURSIVE SumOver(_, _)
SumOver(f, S) ==
    IF S = {} THEN 0
    ELSE LET o == CHOOSE o \in S : TRUE IN f[o] + SumOver(f, S \ {o})

\* exact rationals <<n, d>> with d > 0
RLeq(a, b) == a[1] * b[2] <= b[1] * a[2]
RLt(a, b) == a[1] * b[2] < b[1] * a[2]
REq(a, b) == a[1] * b[2] = b[1] * a[2]
RSub(a, b) == <<a[1] * b[2] - b[1] * a[2], a[2] * b[2]>>
RAdd(a, b) == <<a[1] * b[2] + b[1] * a[2], a[2] * b[2]>>
RMul(a, b) == <<a[1] * b[1], a[2] * b[2]>>
RDiv(a, b) == <<a[1] * b[2], a[2] * b[1]>>    \* b > 0
RInt(n) == <<n, 1>>

RECURSIVE Gcd(_, _)
Gcd(a, b) == IF b = 0 THEN a ELSE Gcd(b, a % b)

Abs(n) == IF n < 0 THEN -n ELSE n

\* lowest terms
Norm(a) == LET g == Gcd(Abs(a[1]), a[2]) IN <<a[1] \div g, a[2] \div g>>

\* ------------------------------------------------- the annotated matrix
NumCol(vals) == [dtype |-> "numeric", values |-> vals]
CatCol(vals) == [dtype |-> "category", values |-> vals]

\* the value columns the matrices are filled from
Patterns == {p \in [Obs -> 0..MaxVal] : \A o \in Obs : o < NObs => p[o] <= p[o + 1]}
Rev(p) == [o \in Obs |-> p[NObs + 1 - o]]

PrimaryX(p) == [v \in {"A", "B"} |-> IF v = "A" THEN p ELSE Rev(p)]
RawX(p) ==
    [v \in {"A", "B", "R"} |->
        IF v = "A" THEN Rev(p)
        ELSE IF v = "B" THEN p
        ELSE [o \in Obs |-> MaxVal - p[o]]]

ObsTable ==
    [f \in {"A", "R", "grp"} |->
        IF f = "A" THEN NumCol([o \in Obs |-> MaxVal + o])
        ELSE IF f = "R" THEN NumCol([o \in Obs |-> MaxVal + 2 * o])
        ELSE CatCol([o \in Obs |-> 1 + (o % 2)])]

Obsm == [b \in {"X_umap"} |-> [o \in Obs |-> <<o, NObs - o>>]]

\* adata.raw: NoRaw when no raw alternate is stored, else <<the raw matrix>>
NoRaw == <<>>

AnnData(p, hasRaw) ==
    [X |-> PrimaryX(p),
     raw |-> IF hasRaw THEN <<RawX(p)>> ELSE NoRaw,
     obs |-> ObsTable,
     obsm |-> Obsm]

\* --------------------------------------------------------- call arguments
UseRaw == {"None", "True", "False"}

OptKeys == {"padding", "width", "colorbar", "hover_cols"}

\* the values a caller passes; each differs from the function's own default
\* for some function that sets the key
OptValues(k) ==
    IF k = "colorbar" THEN {"True", "False"}
    ELSE IF k = "padding" THEN {"0.5"}
    ELSE IF k = "width" THEN {"500"}
    ELSE {"n_genes"}

\* the caller's extra options (**kwds): none, or one option
Opts == {Empty} \cup UNION {{[k \in {o} |-> v] : v \in OptValues(o)} : o \in OptKeys}

KeyLists ==
    UNION {{s \in [1..n -> Names] : \A i, j \in 1..n : i # j => s[i] # s[j]} : n \in 1..MaxKeys}

NoLegend == <<>>

\* `plots`: the renderer calls the function made, in order, each with the table
\* and the keyword arguments handed over; `legend`: the size legend, if built
Frame(fn, args, outcome, source, plots, legend) ==
    [fn |-> fn, args |-> args, outcome |-> outcome, source |-> source,
     plots |-> plots, legend |-> legend]

NoCall == Frame("none", Empty, Ok, None, <<>>, NoLegend)

\* the call stopped at the raw-view resolution
Failed(fn, args, err) == Frame(fn, args, err, None, <<>>, NoLegend)

\* ------------------------------------------------- 4.1 raw-view resolution
\* plot.py: `if use_raw or (use_raw is None and adata.raw is not None)`
WantsRaw(ad, use_raw) == use_raw = "True" \/ (use_raw = "None" /\ ad.raw # NoRaw)

\* a resolver that falls back to the primary matrix when no raw is stored
ResolveFallsBack(ad, use_raw) ==
    IF WantsRaw(ad, use_raw) /\ ad.raw # NoRaw THEN "raw" ELSE "primary"

\* the outcome of the resolution: "raw", "primary" or the error
Resolve(ad, use_raw) ==
    IF WantsRaw(ad, use_raw)
    THEN IF ad.raw = NoRaw THEN RawNotFound ELSE "raw"
    ELSE "primary"

\* lookups that keep reading the primary matrix after the resolution
SourcePrimary(ad, src) == ad.X

\* adata_raw: the matrix every later lookup of the call reads
Source(ad, src) == IF src = "raw" THEN ad.raw[1] ELSE ad.X

\* adata_raw[:, key].X as a dense column
VarColumn(m, key) == NumCol(m[key])

\* ------------------------------------------------------------ the renderer
\* f(explicit..., **keywords): a keyword given twice is a TypeError
Collides(explicit, keywords) == DOMAIN explicit \cap DOMAIN keywords # {}

Plot(df, explicit, keywords) == [df |-> df, kw |-> Update(keywords, explicit)]

\* ----------------------------------------------------------------- violin
AsStr(col) == [dtype |-> "object", values |-> col.values]

\* one pass of the loop over keys: the obs table afterwards, and the plot
ViolinKey(m, obs, key, by, width, keywords) ==
    IF key \in DOMAIN m
    THEN IF by # None /\ by \notin DOMAIN obs
         THEN [err |-> KeyError, obs |-> obs, plot |-> None]
         ELSE LET df0 == [k \in {key} |-> VarColumn(m, key)]
                  df1 == IF by # None THEN Put(df0, by, obs[by]) ELSE df0
                  df2 == IF by # None /\ df1[by].dtype = "category"
                         THEN Put(df1, by, AsStr(df1[by]))
                         ELSE df1
              IN [err |-> Ok, obs |-> obs,
                  plot |-> Plot(df2, [y |-> key, width |-> width, by |-> by, violin_color |-> by],
                                keywords)]
    ELSE \* df = adata.obs: the table itself, not a copy
         IF by # None /\ by \notin DOMAIN obs
         THEN [err |-> KeyError, obs |-> obs, plot |-> None]
         ELSE LET obs1 == IF by # None /\ obs[by].dtype = "category"
                          THEN Put(obs, by, AsStr(obs[by]))
                          ELSE obs
              IN IF key \notin DOMAIN obs1
                 THEN [err |-> KeyError, obs |-> obs1, plot |-> None]
                 ELSE [err |-> Ok, obs |-> obs1,
                       plot |-> Plot(obs1, [y |-> key, width |-> width, by |-> by,
                                            violin_color |-> by], keywords)]

RECURSIVE ViolinLoop(_, _, _, _, _, _, _, _)
ViolinLoop(m, obs, keys, i, by, width, keywords, plots) ==
    IF i > Len(keys) THEN [err |-> Ok, obs |-> obs, plots |-> plots]
    ELSE LET r == ViolinKey(m, obs, keys[i], by, width, keywords)
         IN IF r.err # Ok THEN [err |-> r.err, obs |-> r.obs, plots |-> plots]
            ELSE ViolinLoop(m, r.obs, keys, i + 1, by, width, keywords, Append(plots, r.plot))

violin(keys, by, use_raw, opts) ==
    LET src == Resolve(adata, use_raw)
        width == IF "width" \in DOMAIN opts THEN opts["width"] ELSE "200"
        kwds == Restrict(opts, DOMAIN opts \ {"width"})
        keywords == Update([padding |-> "0.02", cmap |-> "Category20"], kwds)
        args == [keys |-> keys, by |-> by, use_raw |-> use_raw, opts |-> opts]
    IN IF src = RawNotFound
       THEN /\ call' = Failed("violin", args, src)
            /\ UNCHANGED adata
       ELSE LET r == ViolinLoop(Source(adata, src), adata.obs, keys, 1, by, width, keywords, <<>>)
            IN /\ call' = Frame("violin", args, r.err, src, r.plots, NoLegend)
               /\ adata' = [adata EXCEPT !.obs = r.obs]

Violin ==
    /\ call = NoCall
    /\ \E keys \in KeyLists, by \in Names \cup {None}, use_raw \in UseRaw, opts \in Opts :
          violin(keys, by, use_raw, opts)

\* ---------------------------------------------------------------- heatmap
\* the long-format table: one row per (key, observation), key-major
HeatmapRows(m, obs, keys, by) ==
    [n \in 1..(Len(keys) * NObs) |->
        LET key == keys[((n - 1) \div NObs) + 1]
            o == ((n - 1) % NObs) + 1
        IN [value |-> m[key][o], feature |-> key, group |-> obs[by].values[o]]]

heatmap(keys, by, use_raw, opts) ==
    LET src == Resolve(adata, use_raw)
        keywords == Update([colorbar |-> "True", xlabel |-> "", cmap |-> "Reds",
                            ylabel |-> by, rot |-> "90"], opts)
        args == [keys |-> keys, by |-> by, use_raw |-> use_raw, opts |-> opts]
        m == Source(adata, src)
    IN /\ UNCHANGED adata
       /\ IF src = RawNotFound THEN call' = Failed("heatmap", args, src)
          ELSE IF by \notin DOMAIN adata.obs \/ \E i \in DOMAIN keys : keys[i] \notin DOMAIN m
          THEN call' = Frame("heatmap", args, KeyError, src, <<>>, NoLegend)
          ELSE call' = Frame("heatmap", args, Ok, src,
                             <<Plot(HeatmapRows(m, adata.obs, keys, by),
                                    [x |-> "feature", y |-> by, C |-> "value",
                                     reduce_function |-> "mean"], keywords)>>,
                             NoLegend)

Heatmap ==
    /\ call = NoCall
    /\ \E keys \in KeyLists, by \in Names, use_raw \in UseRaw, opts \in Opts :
          heatmap(keys, by, use_raw, opts)

\* ------------------------------------------------------- 4.2 field lookup
Found(m, obs, key) == key \in DOMAIN m \/ key \in DOMAIN obs

\* `if key in adata_raw.var_names: df[key] = X  else: df[key] = adata.obs[key].values`
Lookup(m, obs, key) == IF key \in DOMAIN m THEN VarColumn(m, key) ELSE obs[key]

\* `for key in keys:` filling df; stops at the first key found nowhere
RECURSIVE Extract(_, _, _, _, _)
Extract(m, obs, keys, i, df) ==
    IF i > Len(keys) THEN [err |-> Ok, df |-> df]
    ELSE IF ~Found(m, obs, keys[i]) THEN [err |-> KeyError, df |-> df]
    ELSE Extract(m, obs, keys, i + 1, Put(df, keys[i], Lookup(m, obs, keys[i])))

\* a type test that takes every non-categorical column for numeric
IsNumericLoose(col) == col.dtype # "category"

\* pd.api.types.is_numeric_dtype
IsNumeric(col) == col.dtype = "numeric"

\* ------------------------------------------------- 4.3 size encoding
\* an interpolation that forgets the offset f0 inside the range
InterpNoOffset(x, x0, x1, f0, f1) ==
    IF RLt(x1, x) THEN f1
    ELSE IF RLt(x, x0) THEN f0
    ELSE IF RLeq(x1, x) THEN f1
    ELSE IF REq(x0, x) THEN f0
    ELSE Norm(RMul(RDiv(RSub(f1, f0), RSub(x1, x0)), RSub(x, x0)))

\* np.interp(x, (x0, x1), (f0, f1)) on exact rationals: outside the range the
\* end values; inside, the search for the interval, its last point first
Interp(x, x0, x1, f0, f1) ==
    IF RLt(x1, x) THEN f1
    ELSE IF RLt(x, x0) THEN f0
    ELSE IF RLeq(x1, x) THEN f1
    ELSE IF REq(x0, x) THEN f0
    ELSE Norm(RAdd(RMul(RDiv(RSub(f1, f0), RSub(x1, x0)), RSub(x, x0)), f0))

ColMin(col) == CHOOSE v \in {col.values[o] : o \in Obs} : \A o \in Obs : v <= col.values[o]
ColMax(col) == CHOOSE v \in {col.values[o] : o \in Obs} : \A o \in Obs : v >= col.values[o]

\* __size_legend__: the tick values and the pixel size drawn for each
SizeLegend(size_min, size_max, dot_min, dot_max, format, size_ticks) ==
    [size_min |-> size_min, size_max |-> size_max,
     ticks |-> size_ticks,
     pixels |-> [i \in DOMAIN size_ticks |->
                    Interp(size_ticks[i], size_min, size_max, RInt(dot_min), RInt(dot_max))],
     format |-> format]

\* ---------------------------------------------------------------- scatter
ScatterDotMin == 2
DotMax == 14
PixelSize == "5px"

\* `hover_cols = keywords.get('hover_cols', []); hover_cols.append(size)`:
\* the caller's list grows in place; a fresh list is dropped
HoverAppend(keywords, size) ==
    IF "hover_cols" \in DOMAIN keywords
    THEN Put(keywords, "hover_cols", keywords["hover_cols"] \o "," \o size)
    ELSE keywords

ScatterColor(keywords, df, color) ==
    IF color = None THEN keywords
    ELSE IF IsNumeric(df[color]) THEN Update(keywords, [colorbar |-> "True", c |-> color])
    ELSE Update(keywords, [by |-> color])

scatter(x, y, color, size, use_raw, opts) ==
    LET src == Resolve(adata, use_raw)
        width == IF "width" \in DOMAIN opts THEN opts["width"] ELSE "300"
        kwds == Restrict(opts, DOMAIN opts \ {"width"})
        keywords == Update([fontsize |-> "title=9", nonselection_alpha |-> "0.1",
                            padding |-> "0.02", xaxis |-> "True", yaxis |-> "True",
                            width |-> width, height |-> "300", alpha |-> "1",
                            tools |-> "box_select"], kwds)
        args == [x |-> x, y |-> y, color |-> color, size |-> size, use_raw |-> use_raw,
                 opts |-> opts]
        is_size_by == size \in Names
        keys == <<x, y>> \o (IF color # None THEN <<color>> ELSE <<>>)
                         \o (IF is_size_by THEN <<size>> ELSE <<>>)
        e == Extract(Source(adata, src), adata.obs, keys, 1, Empty)
        kwColor == ScatterColor(keywords, e.df, color)
    IN /\ UNCHANGED adata
       /\ IF src = RawNotFound THEN call' = Failed("scatter", args, src)
          ELSE IF e.err # Ok THEN call' = Frame("scatter", args, e.err, src, <<>>, NoLegend)
          ELSE IF is_size_by
          THEN IF ~IsNumeric(e.df[size])
               THEN call' = Frame("scatter", args, LibraryError, src, <<>>, NoLegend)
               ELSE LET size_min == RInt(ColMin(e.df[size]))
                        size_max == RInt(ColMax(e.df[size]))
                        pixels == [o \in Obs |->
                                      Interp(RInt(e.df[size].values[o]), size_min, size_max,
                                             RInt(ScatterDotMin), RInt(DotMax))]
                        df == Put(e.df, "pixels", [dtype |-> "float", values |-> pixels])
                        kw == HoverAppend(Put(kwColor, "s", "pixels"), size)
                    IN call' = Frame("scatter", args, Ok, src,
                                     <<Plot(df, [x |-> x, y |-> y], kw)>>,
                                     SizeLegend(size_min, size_max, ScatterDotMin, DotMax, "{0:.1f}",
                                                <<size_min,
                                                  Norm(RMul(RAdd(size_min, size_max), <<1, 2>>)),
                                                  size_max>>))
          ELSE LET kw == IF size # None THEN Put(kwColor, "size", size) ELSE kwColor
               IN call' = Frame("scatter", args, Ok, src, <<Plot(e.df, [x |-> x, y |-> y], kw)>>,
                                NoLegend)

Scatter ==
    /\ call = NoCall
    /\ \E x \in Names, y \in {"B", "R"}, color \in Names \cup {None},
          size \in Names \cup {None, PixelSize}, use_raw \in UseRaw, opts \in Opts :
          scatter(x, y, color, size, use_raw, opts)

\* ---------------------------------------------------------------- dotplot
DotplotDotMin == 0

NoFraction == <<>>

\* (fraction_min, fraction_max) as the caller gives them; NoFraction: unset
FractionArgs ==
    {<<RInt(0), NoFraction>>, <<(<<1, 5>>), NoFraction>>, <<RInt(0), (<<3, 10>>)>>,
     <<RInt(0), (<<3, 5>>)>>}

\* the sorted distinct values of a column: the index of df.groupby(by)
RECURSIVE SortedSeq(_)
SortedSeq(S) ==
    IF S = {} THEN <<>>
    ELSE LET lo == CHOOSE v \in S : \A w \in S : v <= w IN <<lo>> \o SortedSeq(S \ {lo})

Groups(col) == SortedSeq({col.values[o] : o \in Obs})

Members(col, g) == {o \in Obs : col.values[o] = g}

\* reduce_function, default np.mean
Mean(vals, S) == Norm(<<SumOver(vals, S), Cardinality(S)>>)

\* non_zero(g): np.count_nonzero(g) / g.shape[0]
NonZero(vals, S) == Norm(<<Cardinality({o \in S : vals[o] # 0}), Cardinality(S)>>)

RMaxOf(S) == CHOOSE a \in S : \A b \in S : RLeq(b, a)

\* -((-a) \div b): the least integer not below a/b
Ceil(a) == -((-a[1]) \div a[2])

\* a step table with the boundaries on the other side
SizeLegendStepStrict(size_range) ==
    IF RLeq(<<3, 10>>, size_range) /\ RLt(size_range, <<3, 5>>) THEN <<1, 10>>
    ELSE IF RLt(size_range, <<3, 10>>) THEN <<1, 20>>
    ELSE <<1, 5>>

\* the legend step picked from the span of the fraction range
SizeLegendStep(size_range) ==
    IF RLt(<<3, 10>>, size_range) /\ RLeq(size_range, <<3, 5>>) THEN <<1, 10>>
    ELSE IF RLeq(size_range, <<3, 10>>) THEN <<1, 20>>
    ELSE <<1, 5>>

\* np.arange(start, stop, step)
Arange(start, stop, step) ==
    LET n == Ceil(RDiv(RSub(stop, start), step))
    IN [i \in 1..(IF n > 0 THEN n ELSE 0) |-> Norm(RAdd(start, RMul(RInt(i - 1), step)))]

\* df.groupby(by).aggregate([reduce_function, non_zero]), flattened row by row
\* with np.indices: `cols` are the columns left beside the grouping column
DotplotCells(df, cols, by, fraction_min, fraction_max, groups) ==
    LET k == Len(cols)
        fraction == [n \in 1..(Len(groups) * k) |->
                        NonZero(df[cols[((n - 1) % k) + 1]].values,
                                Members(df[by], groups[((n - 1) \div k) + 1]))]
        fmax == IF fraction_max = NoFraction THEN RMaxOf(Range(fraction)) ELSE fraction_max
    IN [n \in 1..(Len(groups) * k) |->
           [x |-> (n - 1) % k,
            y |-> (n - 1) \div k,
            summary |-> Mean(df[cols[((n - 1) % k) + 1]].values,
                             Members(df[by], groups[((n - 1) \div k) + 1])),
            pixels |-> Interp(fraction[n], fraction_min, fmax, RInt(DotplotDotMin), RInt(DotMax)),
            fraction |-> fraction[n]]]

dotplot(keys, by, fraction_min, fraction_max, use_raw, opts) ==
    LET src == Resolve(adata, use_raw)
        keywords == Update([colorbar |-> "True", ylabel |-> by, xlabel |-> "",
                            hover_cols |-> "fraction", padding |-> "0", rot |-> "90",
                            cmap |-> "Reds"], opts)
        args == [keys |-> keys, by |-> by, fraction_min |-> fraction_min,
                 fraction_max |-> fraction_max, use_raw |-> use_raw, opts |-> opts]
        m == Source(adata, src)
        \* df = pd.DataFrame(X, columns=keys); df[by] = adata.obs[by].values
        df == Put([key \in Range(keys) |-> VarColumn(m, key)], by, adata.obs[by])
        cols == SelectSeq(keys, LAMBDA key : key # by)
        groups == Groups(df[by])
        cells == DotplotCells(df, cols, by, fraction_min, fraction_max, groups)
        fmax == IF fraction_max = NoFraction
                THEN RMaxOf({cells[n].fraction : n \in DOMAIN cells})
                ELSE fraction_max
        \* set after the caller's options were merged
        kw == Update(keywords, [width |-> "dot_max*len(xticks)+150",
                                height |-> "dot_max*len(yticks)+100"])
        step == SizeLegendStep(RSub(fmax, fraction_min))
        size_ticks == Arange(IF RLt(RInt(0), fraction_min) THEN fraction_min
                             ELSE RAdd(fraction_min, step),
                             RAdd(fmax, step), step)
    IN /\ UNCHANGED adata
       /\ IF src = RawNotFound THEN call' = Failed("dotplot", args, src)
          ELSE IF by \notin DOMAIN adata.obs \/ \E i \in DOMAIN keys : keys[i] \notin DOMAIN m
          THEN call' = Frame("dotplot", args, KeyError, src, <<>>, NoLegend)
          ELSE IF cols = <<>>
          THEN call' = Frame("dotplot", args, NoColumns, src, <<>>, NoLegend)
          ELSE call' = Frame("dotplot", args, Ok, src,
                             <<[df |-> cells,
                                kw |-> Update(kw, [x |-> "x", y |-> "y", c |-> "summary",
                                                   s |-> "pixels"]),
                                xticks |-> keys,
                                yticks |-> groups]>>,
                             SizeLegend(fraction_min, fmax, DotplotDotMin, DotMax, "{:.0%}",
                                        size_ticks))

Dotplot ==
    /\ call = NoCall
    /\ \E keys \in KeyLists, by \in Names, f \in FractionArgs, use_raw \in UseRaw, opts \in Opts :
          dotplot(keys, by, f[1], f[2], use_raw, opts)

\* --------------------------------------------------------- scatter_matrix
\* a guard that tries the observation fields first
ColorIsVariableOnly(m, color) ==
    color # None /\ color \in DOMAIN m /\ color \notin DOMAIN adata.obs

\* `if color is not None: if color in adata_raw.var_names: raise`
ColorIsVariable(m, color) == color # None /\ color \in DOMAIN m

scatter_matrix(keys, color, use_raw, opts) ==
    LET src == Resolve(adata, use_raw)
        args == [keys |-> keys, color |-> color, use_raw |-> use_raw, opts |-> opts]
        m == Source(adata, src)
        df0 == IF color # None /\ color \in DOMAIN adata.obs
               THEN [k \in {color} |-> adata.obs[color]]
               ELSE Empty
        e == Extract(m, adata.obs, keys, 1, df0)
    IN /\ UNCHANGED adata
       /\ IF src = RawNotFound THEN call' = Failed("scatter_matrix", args, src)
          ELSE IF ColorIsVariable(m, color)
          THEN call' = Frame("scatter_matrix", args, NotSupported, src, <<>>, NoLegend)
          ELSE IF color # None /\ color \notin DOMAIN adata.obs
          THEN call' = Frame("scatter_matrix", args, KeyError, src, <<>>, NoLegend)
          ELSE IF e.err # Ok
          THEN call' = Frame("scatter_matrix", args, e.err, src, <<>>, NoLegend)
          ELSE call' = Frame("scatter_matrix", args, Ok, src,
                             <<Plot(e.df, [c |-> color], opts)>>, NoLegend)

ScatterMatrix ==
    /\ call = NoCall
    /\ \E keys \in KeyLists, color \in Names \cup {None}, use_raw \in UseRaw, opts \in Opts :
          scatter_matrix(keys, color, use_raw, opts)

\* -------------------------------------------------------------- embedding
\* keys=None stands for [None]: one plot without a color field
EmbeddingKeyLists ==
    UNION {{s \in [1..n -> Names \cup {None}] : \A i, j \in 1..n : i # j => s[i] # s[j]}
           : n \in 1..MaxKeys}

\* the keyword arguments the call site spells out for one key
EmbeddingExplicit(df, key, width) ==
    LET is_color_by == key # None
        is_color_by_numeric == is_color_by /\ IsNumeric(df[key])
    IN [x |-> Basis \o "1", y |-> Basis \o "2", title |-> key,
        c |-> IF is_color_by /\ is_color_by_numeric THEN key ELSE None,
        by |-> IF is_color_by /\ ~is_color_by_numeric THEN key ELSE None,
        size |-> "12", alpha |-> "1",
        colorbar |-> IF is_color_by /\ is_color_by_numeric THEN "True" ELSE "False",
        width |-> width, height |-> "400"]

RECURSIVE EmbeddingLoop(_, _, _, _, _, _, _, _)
EmbeddingLoop(m, obs, keys, i, df, width, keywords, plots) ==
    IF i > Len(keys) THEN [err |-> Ok, plots |-> plots]
    ELSE LET key == keys[i]
         IN IF key # None /\ ~Found(m, obs, key) THEN [err |-> KeyError, plots |-> plots]
            ELSE LET df1 == IF key # None THEN Put(df, key, Lookup(m, obs, key)) ELSE df
                     explicit == EmbeddingExplicit(df1, key, width)
                 IN IF Collides(explicit, keywords) THEN [err |-> TypeError, plots |-> plots]
                    ELSE EmbeddingLoop(m, obs, keys, i + 1, df1, width, keywords,
                                       Append(plots, Plot(df1, explicit, keywords)))

embedding(keys, use_raw, opts) ==
    LET src == Resolve(adata, use_raw)
        width == IF "width" \in DOMAIN opts THEN opts["width"] ELSE "400"
        kwds == Restrict(opts, DOMAIN opts \ {"width"})
        keywords == Update([fontsize |-> "title=9", padding |-> "0.02", xaxis |-> "False",
                            yaxis |-> "False", nonselection_alpha |-> "0.1",
                            tools |-> "box_select", cmap |-> "viridis"], kwds)
        args == [basis |-> Basis, keys |-> keys, use_raw |-> use_raw, opts |-> opts]
        coords == adata.obsm["X_" \o Basis]
        df == [c \in {Basis \o "1", Basis \o "2"} |->
                  NumCol([o \in Obs |-> coords[o][IF c = Basis \o "1" THEN 1 ELSE 2]])]
        r == EmbeddingLoop(Source(adata, src), adata.obs, keys, 1, df, width, keywords, <<>>)
    IN /\ UNCHANGED adata
       /\ IF src = RawNotFound THEN call' = Failed("embedding", args, src)
          ELSE call' = Frame("embedding", args, r.err, src, r.plots, NoLegend)

Embedding ==
    /\ call = NoCall
    /\ \E keys \in EmbeddingKeyLists, use_raw \in UseRaw, opts \in Opts :
          embedding(keys, use_raw, opts)

\* the caller drops the returned plot object (or the raised error)
Release ==
    /\ call # NoCall
    /\ call' = NoCall
    /\ UNCHANGED adata

Init ==
    /\ \E p \in Patterns, hasRaw \in BOOLEAN : adata = AnnData(p, hasRaw)
    /\ call = NoCall

Next ==
    \/ Violin
    \/ Heatmap
    \/ Scatter
    \/ Dotplot
    \/ ScatterMatrix
    \/ Embedding
    \/ Release

Spec == Init /\ [][Next]_vars

\* ================================================================ claims
\* the matrix the resolved source of the recorded call names
Resolved == IF call.source = "raw" THEN adata.raw[1] ELSE adata.X

\* the field names the recorded call looks up as variable-or-observation
Requested ==
    IF call.fn \in {"violin", "scatter_matrix"} THEN Range(call.args.keys)
    ELSE IF call.fn = "embedding" THEN Range(call.args.keys) \ {None}
    ELSE IF call.fn = "scatter"
    THEN ({call.args.x, call.args.y, call.args.color, call.args.size} \cap Names)
    ELSE {}

\* the requested names whose columns `plot` shows: a violin plot shows its own
\* key, the other tables hold every name looked up so far
Shown(plot) ==
    IF call.fn = "violin" THEN {plot.kw["y"]} ELSE Requested \cap DOMAIN plot.df

\* C1: a call with use_raw=True on an annotated matrix without a raw alternate
\* fails with 'Raw data not found' and hands nothing to the renderer, in every
\* plot function and for every choice of the other arguments.
RawMissingFails ==
    (call.fn # "none" /\ call.args.use_raw = "True" /\ adata.raw = NoRaw)
        => (call.outcome = RawNotFound /\ call.plots = <<>> /\ call.legend = NoLegend)

RawMissingWitness ==
    /\ call.fn = "embedding"
    /\ call.args.use_raw = "True"
    /\ call.args.opts # Empty
    /\ adata.raw = NoRaw
    /\ call.outcome = RawNotFound

\* C2: with use_raw unset the resolved source is the raw alternate when the
\* annotated matrix has one and the primary matrix otherwise, and every
\* membership test and value extraction of the call reads that one source:
\* a requested name is taken as a variable exactly when the resolved matrix
\* has it, and the values handed over are that matrix's.
AutoSourceMatrix == IF adata.raw # NoRaw THEN adata.raw[1] ELSE adata.X

AutoSourceReads(plot) ==
    IF call.fn = "heatmap"
    THEN \A n \in DOMAIN plot.df :
            plot.df[n].value = AutoSourceMatrix[plot.df[n].feature][((n - 1) % NObs) + 1]
    ELSE IF call.fn = "dotplot"
    THEN LET cols == SelectSeq(call.args.keys, LAMBDA k : k # call.args.by)
         IN \A n \in DOMAIN plot.df :
               LET members == {o \in Obs : adata.obs[call.args.by].values[o]
                                              = plot.yticks[plot.df[n].y + 1]}
               IN REq(plot.df[n].summary,
                      <<SumOver(AutoSourceMatrix[cols[plot.df[n].x + 1]], members),
                        Cardinality(members)>>)
    ELSE \A k \in Shown(plot) :
            IF k \in DOMAIN AutoSourceMatrix
            THEN \/ plot.df[k] = NumCol(AutoSourceMatrix[k])
                 \/ (call.fn = "violin" /\ k = call.args.by)
            ELSE plot.df[k].values = adata.obs[k].values

AutoSourceResolved ==
    (call.fn # "none" /\ call.args.use_raw = "None")
        => /\ call.outcome # RawNotFound
           /\ call.source = (IF adata.raw # NoRaw THEN "raw" ELSE "primary")
           /\ \A i \in DOMAIN call.plots : AutoSourceReads(call.plots[i])

\* "R" is a variable of the raw alternate only, and the raw column of "A"
\* differs from the primary one
AutoSourceWitness ==
    /\ call.fn = "scatter"
    /\ call.args.use_raw = "None"
    /\ call.args.x = "A"
    /\ call.args.y = "R"
    /\ adata.raw # NoRaw
    /\ adata.raw[1]["A"] # adata.X["A"]
    /\ call.outcome = Ok
    /\ call.plots[1].df["R"] = NumCol(adata.raw[1]["R"])
    /\ call.plots[1].df["A"] = NumCol(adata.raw[1]["A"])

\* C3: no call changes the annotated matrix: primary matrix, raw alternate,
\* embeddings and every column of the observation table (values and typing)
\* stay what they were.
AdataNeverChanges == [][adata' = adata]_vars

\* C4 as claimed: a scatter_matrix call whose color names a variable (and no
\* observation field) fails with the not-yet-implemented error whatever the
\* other arguments are, use_raw and the presence of a raw alternate included.
ColorByVariableAlwaysRejected ==
    (/\ call.fn = "scatter_matrix"
     /\ call.args.color \in DOMAIN adata.X
     /\ call.args.color \notin DOMAIN adata.obs)
        => call.outcome = NotSupported

\* C4 as amended: once the raw-view resolution has succeeded, a scatter_matrix
\* call whose color names a variable of the resolved source fails with the
\* not-yet-implemented error and hands nothing to the renderer, whatever the
\* keys and extra options are (and whether or not the name is an observation
\* field too).
ColorByVariableRejected ==
    (/\ call.fn = "scatter_matrix"
     /\ call.outcome # RawNotFound
     /\ call.args.color \in DOMAIN Resolved)
        => (call.outcome = NotSupported /\ call.plots = <<>>)

ColorByVariableWitness ==
    /\ call.fn = "scatter_matrix"
    /\ call.args.color = "A"
    /\ call.args.opts # Empty
    /\ Len(call.args.keys) = MaxKeys
    /\ call.source = "raw"
    /\ call.outcome = NotSupported

\* C5: in violin, scatter, scatter_matrix and embedding, a requested name that
\* is both a variable of the resolved source and an observation field reaches
\* the renderer with the variable's matrix column.
VariableWinsOverObsField ==
    (call.fn # "none" /\ call.source # None)
        => \A i \in DOMAIN call.plots :
              \A k \in Shown(call.plots[i]) :
                 (k \in DOMAIN Resolved /\ k \in DOMAIN adata.obs)
                    => call.plots[i].df[k] = NumCol(Resolved[k])

\* C6: a dotplot over k variable keys and a grouping field with g groups hands
\* over exactly k*g cells, one per (variable index, group index), the cell at
\* (i, j) carrying the mean and the non-zero share of variable i over the
\* observations of group j.
DotplotGrid ==
    (call.fn = "dotplot" /\ call.outcome = Ok)
        => LET cells == call.plots[1].df
               keys == call.args.keys
               by == adata.obs[call.args.by]
               groups == {by.values[o] : o \in Obs}
               group(j) == CHOOSE g \in groups : Cardinality({h \in groups : h < g}) = j
               members(j) == {o \in Obs : by.values[o] = group(j)}
           IN /\ Len(cells) = Len(keys) * Cardinality(groups)
              /\ \A i \in 0..(Len(keys) - 1), j \in 0..(Cardinality(groups) - 1) :
                    \E n \in DOMAIN cells :
                       /\ cells[n].x = i /\ cells[n].y = j
                       /\ \A n2 \in DOMAIN cells :
                             (cells[n2].x = i /\ cells[n2].y = j) => n2 = n
                       /\ REq(cells[n].summary,
                              <<SumOver(Resolved[keys[i + 1]], members(j)),
                                Cardinality(members(j))>>)
                       /\ REq(cells[n].fraction,
                              <<Cardinality({o \in members(j) : Resolved[keys[i + 1]][o] # 0}),
                                Cardinality(members(j))>>)

\* the sized column of a scatter call and its observed range
SizedBy == call.fn = "scatter" /\ call.outcome = Ok /\ call.args.size \in Names
SizeValues == call.plots[1].df[call.args.size].values
SizePixels == call.plots[1].df["pixels"].values
SizeLow == CHOOSE v \in {SizeValues[o] : o \in Obs} : \A o \in Obs : v <= SizeValues[o]
SizeHigh == CHOOSE v \in {SizeValues[o] : o \in Obs} : \A o \in Obs : v >= SizeValues[o]

\* C7 as claimed: for every content of the size field, a constant field
\* included, each observation holding vmin gets exactly dot_min and each
\* holding vmax gets exactly dot_max.
SizeEndsExact ==
    SizedBy => \A o \in Obs :
                  /\ SizeValues[o] = SizeLow => REq(SizePixels[o], RInt(ScatterDotMin))
                  /\ SizeValues[o] = SizeHigh => REq(SizePixels[o], RInt(DotMax))

\* C7 as amended: when the field is not constant (vmin < vmax) the pixel size
\* is dot_min + (v - vmin) * (dot_max - dot_min) / (vmax - vmin), so vmin gets
\* exactly dot_min and vmax exactly dot_max; when the field is constant every
\* observation gets dot_max.
SizeLinear ==
    SizedBy => \A o \in Obs :
                  IF SizeLow < SizeHigh
                  THEN SizePixels[o][1] * (SizeHigh - SizeLow)
                          = SizePixels[o][2] * (ScatterDotMin * (SizeHigh - SizeLow)
                                                + (SizeValues[o] - SizeLow)
                                                  * (DotMax - ScatterDotMin))
                  ELSE REq(SizePixels[o], RInt(DotMax))

\* a value strictly inside the range, mapped strictly inside the pixel range
SizeLinearWitness ==
    /\ SizedBy
    /\ \E o \in Obs :
          /\ SizeLow < SizeValues[o] /\ SizeValues[o] < SizeHigh
          /\ RLt(RInt(ScatterDotMin), SizePixels[o]) /\ RLt(SizePixels[o], RInt(DotMax))

\* C8: the dotplot legend ticks are spaced by a step picked from
\* span = fraction_max - fraction_min alone (fraction_max the observed maximum
\* when unset): span <= 0.3 gives 0.05, 0.3 < span <= 0.6 gives 0.1, larger
\* spans give 0.2.
DotplotSpan == RSub(call.legend.size_max, call.args.fraction_min)

LegendStepFromSpan ==
    (call.fn = "dotplot" /\ call.outcome = Ok)
        => LET cells == call.plots[1].df
               ticks == call.legend.ticks
               expected == IF RLeq(DotplotSpan, <<3, 10>>) THEN <<1, 20>>
                           ELSE IF RLeq(DotplotSpan, <<6, 10>>) THEN <<1, 10>>
                           ELSE <<2, 10>>
           IN /\ call.legend.size_min = call.args.fraction_min
              /\ IF call.args.fraction_max = NoFraction
                 THEN /\ \E n \in DOMAIN cells : REq(cells[n].fraction, call.legend.size_max)
                      /\ \A n \in DOMAIN cells : RLeq(cells[n].fraction, call.legend.size_max)
                 ELSE call.legend.size_max = call.args.fraction_max
              /\ \A i \in 1..(Len(ticks) - 1) : REq(RSub(ticks[i + 1], ticks[i]), expected)

\* the span is exactly 0.3, from an observed maximum, and the ticks step by 0.05
LegendStepWitness ==
    /\ call.fn = "dotplot"
    /\ call.outcome = Ok
    /\ call.args.fraction_max = NoFraction
    /\ REq(DotplotSpan, <<3, 10>>)
    /\ Len(call.legend.ticks) >= 2
    /\ REq(RSub(call.legend.ticks[2], call.legend.ticks[1]), <<1, 20>>)

\* C9: every extra option the caller passes reaches the renderer with the
\* caller's value, also when the function sets that key itself.
CallerOptionsReachRenderer ==
    (call.fn # "none" /\ call.outcome = Ok)
        => \A i \in DOMAIN call.plots :
              \A k \in DOMAIN call.args.opts :
                 /\ k \in DOMAIN call.plots[i].kw
                 /\ call.plots[i].kw[k] = call.args.opts[k]

\* the color encoding a plot was given for `field`: continuous with a
\* color-bar for a numeric column, per-category without one otherwise
Unset(kw, k) == k \notin DOMAIN kw \/ kw[k] = None

EncodedByType(plot, field) ==
    IF plot.df[field].dtype = "numeric"
    THEN /\ "c" \in DOMAIN plot.kw /\ plot.kw["c"] = field
         /\ "colorbar" \in DOMAIN plot.kw /\ plot.kw["colorbar"] = "True"
         /\ Unset(plot.kw, "by")
    ELSE /\ "by" \in DOMAIN plot.kw /\ plot.kw["by"] = field
         /\ Unset(plot.kw, "c")
         /\ ("colorbar" \notin DOMAIN plot.kw \/ plot.kw["colorbar"] = "False")

\* C10 as claimed: in scatter and embedding the color encoding depends on the
\* type of the color field's column only.
ColorEncodingByTypeOnly ==
    /\ (call.fn = "scatter" /\ call.outcome = Ok /\ call.args.color # None)
          => EncodedByType(call.plots[1], call.args.color)
    /\ call.fn = "embedding"
          => \A i \in DOMAIN call.plots :
                call.args.keys[i] # None => EncodedByType(call.plots[i], call.args.keys[i])

\* C10 as amended: the same, in scatter for calls whose extra options do not
\* themselves set the color-bar (nor c, nor by), and in embedding for every
\* plot the call hands over, each key independently of the keys before it.
ColorEncodingByType ==
    /\ (/\ call.fn = "scatter" /\ call.outcome = Ok /\ call.args.color # None
        /\ "colorbar" \notin DOMAIN call.args.opts)
          => EncodedByType(call.plots[1], call.args.color)
    /\ call.fn = "embedding"
          => \A i \in DOMAIN call.plots :
                call.args.keys[i] # None => EncodedByType(call.plots[i], call.args.keys[i])

\* a two-key embedding: a categorical key first, then a numeric one
ColorEncodingWitness ==
    /\ call.fn = "embedding"
    /\ call.outcome = Ok
    /\ Len(call.plots) = 2
    /\ call.args.keys[1] # None /\ call.args.keys[2] # None
    /\ call.plots[1].df[call.args.keys[1]].dtype # "numeric"
    /\ call.plots[1].kw["by"] = call.args.keys[1]
    /\ call.plots[2].df[call.args.keys[2]].dtype = "numeric"
    /\ call.plots[2].kw["c"] = call.args.keys[2]
    /\ call.plots[2].kw["colorbar"] = "True"
====
